---- MODULE Spec2Model ----
(***************************************************************************)
(* Model of the ChusUEM/ros2 sources:                                      *)
(*   - nav2_pure_pursuit_controller/src/pure_pursuit_controller.cpp        *)
(*   - nav2_gps_waypoint_follower_demo/src/gps_waypoint_collector.cpp      *)
(*   - nav2_gps_waypoint_follower_demo/src/gps_waypoint_follower_demo.cpp  *)
(*                                                                         *)
(* Units.  Lengths are integers in millimetres, linear velocities in       *)
(* 0.01 m/s, angular velocities in 0.01 rad/s, time in 0.1 s and           *)
(* accelerations in 0.1 m/s^2 (so that accel * dt is a velocity).  The     *)
(* lookahead gain is in tenths.  A double that is not a whole number of    *)
(* these units is truncated toward zero.                                   *)
(***************************************************************************)
EXTENDS Integers, Sequences, FiniteSets, TLC

VARIABLES
    params,        \* the node's parameter values, as loaded at launch
    global_pub_,   \* the LifecyclePublisher: "null", "inactive" or "active"
    cfg,           \* the parameters read by configure, NoConfig before it
    global_plan_,  \* the held path: [frame, poses]
    last_cmd_,     \* the last emitted command: [stamp, lin, ang]
    crashed,       \* the process was terminated by a null dereference
    last_op        \* what the last call did: [op, outcome, cmd, ...]

\* GPSWaypointCollector (gps_waypoint_collector.cpp)
VARIABLES
    is_first_msg_recieved_,
    reusable_navsat_msg_,  \* [latitude, longitude]: the sample each field is of
    reusable_imu_msg_,     \* the sample the orientation is of
    global_mutex_,         \* "free", "timer" or "sensor"
    timer_pc,              \* where timerCallback stands
    sensor_pc,             \* where sensorDataCallback stands
    timer_local,           \* what timerCallback has read so far
    incoming,              \* the sample pair handed to sensorDataCallback
    logged                 \* the waypoint line logged last, NoLog before

\* GPSWayPointFollowerClient and its main (gps_waypoint_follower_demo.cpp)
VARIABLES
    yaml,                      \* the node's parameter file
    gps_waypoints_from_yaml_,
    goal_done_,
    timer_,                    \* "armed" or "cancelled"
    main_pc,                   \* "spin" (in the while loop) or "shutdown"
    goal_status,               \* the request at the action server
    inbox,                     \* callbacks the executor has still to run
    delivered,                 \* what the callbacks have been told so far
    sent,                      \* the goals handed to async_send_goal
    feedback_count

ctrlVars ==
    <<params, global_pub_, cfg, global_plan_, last_cmd_, crashed, last_op>>

collectorVars ==
    <<is_first_msg_recieved_, reusable_navsat_msg_, reusable_imu_msg_,
      global_mutex_, timer_pc, sensor_pc, timer_local, incoming, logged>>

clientVars ==
    <<yaml, gps_waypoints_from_yaml_, goal_done_, timer_, main_pc, goal_status,
      inbox, delivered, sent, feedback_count>>

vars == <<ctrlVars, collectorVars, clientVars>>

-----------------------------------------------------------------------------
(* Bounds of the model *)

\* longest path the host hands to setPlan
MaxPathLen == 3

\* last clock reading (0.1 s) at which a tick is started
MaxTime == 2

\* number of synchronized sample pairs delivered to the collector
MaxSamples == 4

\* largest number_of_gps_waypoints in a parameter file
MaxWaypoints == 2

\* feedback messages the action server sends for one goal
MaxFeedback == 1

-----------------------------------------------------------------------------
(* Arithmetic helpers *)

Abs(x) == IF x < 0 THEN -x ELSE x

Max(a, b) == IF a > b THEN a ELSE b

\* a / b for doubles, truncated toward zero (b > 0)
Trunc(a, b) == IF a >= 0 THEN a \div b ELSE -((-a) \div b)

RECURSIVE IsqrtBin(_, _, _)
\* largest r in lo..hi with r * r <= n  (lo * lo <= n)
IsqrtBin(n, lo, hi) ==
    IF lo >= hi THEN lo
    ELSE LET mid == (lo + hi + 1) \div 2
         IN IF mid * mid <= n THEN IsqrtBin(n, mid, hi)
            ELSE IsqrtBin(n, lo, mid - 1)

\* std::hypot in millimetres from the squared length in mm^2
Hypot(dx, dy) == IsqrtBin(dx * dx + dy * dy, 0, Abs(dx) + Abs(dy))

\* squared planar distance, used wherever two distances are only compared
Dist2(ax, ay, bx, by) == (ax - bx) * (ax - bx) + (ay - by) * (ay - by)

-----------------------------------------------------------------------------
(* Configuration, collaborators and inputs *)

NoConfig == [configured |-> FALSE]

\* the values declare_parameter_if_not_declared gives when the host sets none
DefaultConfig ==
    [configured |-> TRUE,
     desired_linear_vel |-> 50,
     max_accel |-> 10,
     max_decel |-> 10,
     lookahead_dist |-> 400,
     min_lookahead_dist |-> 300,
     max_lookahead_dist |-> 600,
     lookahead_gain |-> 15,
     max_angular_vel |-> 100,
     use_velocity_scaled_lookahead_dist |-> FALSE]

\* parameter sets the host may have loaded; the last has inverted clamp bounds
Configs ==
    {DefaultConfig,
     [DefaultConfig EXCEPT !.use_velocity_scaled_lookahead_dist = TRUE,
                           !.max_accel = 50,
                           !.max_decel = 50,
                           !.max_angular_vel = 50],
     [DefaultConfig EXCEPT !.use_velocity_scaled_lookahead_dist = TRUE,
                           !.min_lookahead_dist = 600,
                           !.max_lookahead_dist = 300]}

\* the cost grid collaborator: size in cells and resolution in mm
Costmap == [size_x |-> 40, size_y |-> 30, resolution |-> 50]

PlanFrame == "map"

BaseFrame == "base_link"

Pt(x, y) == [x |-> x, y |-> y]

\* paths the host may hand to setPlan, the empty one included
AllPlans ==
    {<< >>,
     <<Pt(0, 0), Pt(400, 0), Pt(800, 0)>>,
     <<Pt(400, 0), Pt(0, 400), Pt(2000, 0)>>,
     <<Pt(0, 0), Pt(2000, 0), Pt(400, 0)>>,
     <<Pt(0, 0), Pt(400, 0), Pt(2000, 0), Pt(400, 400)>>}

Plans == {p \in AllPlans : Len(p) <= MaxPathLen}

\* where the robot really is in the plan frame; yaw in quarter turns
RobotPoses ==
    {[x |-> 0, y |-> 0, yaw |-> 0],
     [x |-> 400, y |-> 0, yaw |-> 1],
     [x |-> 3000, y |-> 0, yaw |-> 0]}

\* speed.linear.x values the host reports
Speeds == {0, 40}

\* a default-constructed geometry_msgs::msg::PoseStamped
DefaultPose == [frame |-> "", x |-> 0, y |-> 0]

\* a default-constructed nav_msgs::msg::Path
DefaultPath == [frame |-> "", poses |-> << >>]

\* a default-constructed geometry_msgs::msg::TwistStamped
DefaultCmd == [stamp |-> 0, lin |-> 0, ang |-> 0]

NoCmd == [stamp |-> -1, lin |-> 0, ang |-> 0]

\* the pose the host passes to computeVelocityCommands for a robot at r
HostPose(frame, r, stamp) ==
    IF frame = BaseFrame
    THEN [frame |-> frame, x |-> 0, y |-> 0, stamp |-> stamp]
    ELSE [frame |-> frame, x |-> r.x, y |-> r.y, stamp |-> stamp]

\* tf_->transform between the plan frame and the base frame of a robot at r
TfTransform(frame, p, r) ==
    IF frame = BaseFrame
    THEN LET dx == p.x - r.x
             dy == p.y - r.y
         IN IF r.yaw = 0 THEN [frame |-> frame, x |-> dx, y |-> dy]
            ELSE [frame |-> frame, x |-> dy, y |-> -dx]
    ELSE IF r.yaw = 0 THEN [frame |-> frame, x |-> r.x + p.x, y |-> r.y + p.y]
         ELSE [frame |-> frame, x |-> r.x - p.y, y |-> r.y + p.x]

\* transformPose: [ok, out]; out keeps its old value when the lookup throws
transformPose(frame, in_pose, out_pose, tf_ok, r) ==
    IF in_pose.frame = frame
    THEN [ok |-> TRUE, out |-> [frame |-> frame, x |-> in_pose.x, y |-> in_pose.y]]
    ELSE IF tf_ok
         THEN [ok |-> TRUE, out |-> TfTransform(frame, in_pose, r)]
         ELSE [ok |-> FALSE, out |-> out_pose]

-----------------------------------------------------------------------------
(* Path Window Manager: min_by and transformGlobalPlan *)

RECURSIVE MinByFrom(_, _, _, _)
\* the loop of min_by: it scans i..Len(poses), lowest_it is the best so far
MinByFrom(poses, rp, i, lowest_it) ==
    IF i > Len(poses) THEN lowest_it
    ELSE IF Dist2(rp.x, rp.y, poses[i].x, poses[i].y)
              < Dist2(rp.x, rp.y, poses[lowest_it].x, poses[lowest_it].y)
         THEN MinByFrom(poses, rp, i + 1, i)
         ELSE MinByFrom(poses, rp, i + 1, lowest_it)

\* variant: the comparison is <=, the last pose at minimum distance wins
LastMinimum(poses, rp) ==
    IF Len(poses) = 0 THEN Len(poses) + 1
    ELSE CHOOSE i \in 1..Len(poses) :
             \A j \in 1..Len(poses) :
                 LET di == Dist2(rp.x, rp.y, poses[i].x, poses[i].y)
                     dj == Dist2(rp.x, rp.y, poses[j].x, poses[j].y)
                 IN di <= dj /\ (j > i => di < dj)

\* min_by over the held path: index of the closest pose, Len + 1 (end) if empty
min_by(poses, rp) ==
    IF Len(poses) = 0 THEN Len(poses) + 1 ELSE MinByFrom(poses, rp, 2, 1)

\* max_transform_dist = max(size_x, size_y) * resolution / 2, as twice its value
TwiceMaxTransformDist == Max(Costmap.size_x, Costmap.size_y) * Costmap.resolution

\* variant: a pose exactly at max_transform_dist ends the window
AtOrOutsideCostmap(rp, ps) ==
    4 * Dist2(rp.x, rp.y, ps.x, ps.y) >= TwiceMaxTransformDist * TwiceMaxTransformDist

\* euclidean_distance(robot_pose, ps) > max_transform_dist
OutsideCostmap(rp, ps) ==
    4 * Dist2(rp.x, rp.y, ps.x, ps.y) > TwiceMaxTransformDist * TwiceMaxTransformDist

RECURSIVE TransformationEnd(_, _, _)
\* std::find_if from index i: first pose outside the costmap, Len + 1 if none
TransformationEnd(poses, rp, i) ==
    IF i > Len(poses) THEN Len(poses) + 1
    ELSE IF OutsideCostmap(rp, poses[i]) THEN i
         ELSE TransformationEnd(poses, rp, i + 1)

RECURSIVE TransformRange(_, _, _, _, _, _, _)
\* std::transform over [i, e) with transformGlobalPoseToLocal; transformed_pose
\* is the lambda's captured output, tf_fail the indices whose lookup throws
TransformRange(plan, i, e, transformed_pose, tf_fail, r, acc) ==
    IF i >= e THEN acc
    ELSE LET stamped_pose == [frame |-> plan.frame,
                              x |-> plan.poses[i].x, y |-> plan.poses[i].y]
             res == transformPose(BaseFrame, stamped_pose, transformed_pose,
                                  i \notin tf_fail, r)
         IN TransformRange(plan, i + 1, e, res.out, tf_fail, r,
                           Append(acc, res.out))

\* variant: the erase also removes the closest pose
ErasePastClosest(poses, transformation_begin) ==
    SubSeq(poses, transformation_begin + 1, Len(poses))

\* variant: the erase starts after the first pose of the held path
EraseAfterFirst(poses, transformation_begin) ==
    SubSeq(poses, 1, 1) \o SubSeq(poses, transformation_begin + 1, Len(poses))

\* global_plan_.poses.erase(begin, transformation_begin)
ErasePrefix(poses, transformation_begin) ==
    SubSeq(poses, transformation_begin, Len(poses))

\* the part of transformGlobalPlan up to the window bounds:
\* [outcome, begin, end) with begin = transformation_begin
WindowRange(plan, pose, r, tf_robot_ok) ==
    IF Len(plan.poses) = 0
    THEN [outcome |-> "InvalidPath", begin |-> 1, end |-> 1]
    ELSE LET rt == transformPose(plan.frame, pose, DefaultPose, tf_robot_ok, r)
         IN IF ~rt.ok
            THEN [outcome |-> "TransformError", begin |-> 1, end |-> 1]
            ELSE LET transformation_begin == min_by(plan.poses, rt.out)
                 IN [outcome |-> "ok",
                     begin |-> transformation_begin,
                     end |-> TransformationEnd(plan.poses, rt.out,
                                               transformation_begin)]

\* transformGlobalPlan: [outcome, poses (of the held path afterwards), window,
\* published (the call reached global_pub_->publish)]
transformGlobalPlan(plan, pose, r, tf_robot_ok, tf_fail) ==
    LET range == WindowRange(plan, pose, r, tf_robot_ok)
    IN IF range.outcome # "ok"
       THEN [outcome |-> range.outcome, poses |-> plan.poses,
             window |-> << >>, published |-> FALSE]
       ELSE LET transformed_plan ==
                    TransformRange(plan, range.begin, range.end, DefaultPose,
                                   tf_fail, r, << >>)
            IN [outcome |-> IF Len(transformed_plan) = 0
                            THEN "EmptyWindow" ELSE "ok",
                poses |-> ErasePrefix(plan.poses, range.begin),
                window |-> transformed_plan,
                published |-> TRUE]

-----------------------------------------------------------------------------
(* Lookahead Selector *)

\* std::clamp(v, lo, hi); with hi < lo the behaviour is undefined: the library
\* code returns lo or hi, a build with assertions aborts
ClampOutcomes(v, lo, hi) ==
    IF lo <= hi
    THEN {IF v < lo THEN lo ELSE IF hi < v THEN hi ELSE v}
    ELSE {lo, hi, -1}

Clamp(v, lo, hi) == IF v < lo THEN lo ELSE IF hi < v THEN hi ELSE v

\* getLookAheadDistance: the set of values the call can return (-1: abort)
getLookAheadDistance(c, speed) ==
    IF c.use_velocity_scaled_lookahead_dist
    THEN ClampOutcomes(speed * c.lookahead_gain,
                       c.min_lookahead_dist, c.max_lookahead_dist)
    ELSE {c.lookahead_dist}

RECURSIVE FindGoalPoseBeyond(_, _, _)
\* variant: the comparison is >, a pose exactly at the lookahead is passed over
FindGoalPoseBeyond(window, lookahead_dist, i) ==
    IF i > Len(window) THEN Len(window) + 1
    ELSE IF Hypot(window[i].x, window[i].y) > lookahead_dist THEN i
         ELSE FindGoalPoseBeyond(window, lookahead_dist, i + 1)

RECURSIVE FindGoalPose(_, _, _)
\* std::find_if over the window: first pose with hypot(x, y) >= lookahead_dist
FindGoalPose(window, lookahead_dist, i) ==
    IF i > Len(window) THEN Len(window) + 1
    ELSE IF Hypot(window[i].x, window[i].y) >= lookahead_dist THEN i
         ELSE FindGoalPose(window, lookahead_dist, i + 1)

\* goal_pose_it, with the fall back to the last pose
GoalPoseIndex(window, lookahead_dist) ==
    LET it == FindGoalPose(window, lookahead_dist, 1)
    IN IF it = Len(window) + 1 THEN Len(window) ELSE it

-----------------------------------------------------------------------------
(* Velocity Synthesizer and Kinematic Limiter *)

\* carrot_dist: hypot of the host's pose minus the carrot, lines 185-187
CarrotDist(pose, carrot_pose) ==
    Hypot(pose.x - carrot_pose.x, pose.y - carrot_pose.y)

\* desired_linear_vel_ * curvature, curvature = 2 y / carrot_dist^2 when
\* carrot_dist > 0.001 and 0 otherwise; carrot_dist2 is carrot_dist^2 in mm^2
RawAngular(c, carrot, carrot_dist2) ==
    IF carrot_dist2 > 1
    THEN Trunc(2000 * c.desired_linear_vel * carrot.y, carrot_dist2)
    ELSE 0

\* end-of-path scaling of the linear velocity
ScaleLinear(linear_vel, dist_error, lookahead_dist) ==
    IF dist_error > 2 * Costmap.resolution
    THEN Trunc(linear_vel * dist_error, lookahead_dist)
    ELSE linear_vel

\* variant: the raw velocity is passed through without a limit
NoAccelLimit(vel, last, dt, max_accel, max_decel) == vel

\* one axis of the acceleration limiter: measured = (vel - last) / dt is
\* compared with max_accel and -max_decel.  With dt = 0 the quotient is
\* +inf, -inf or NaN and every branch gives last; with dt < 0 the division
\* reverses the comparisons.
LimitAccel(vel, last, dt, max_accel, max_decel) ==
    IF dt > 0
    THEN IF vel - last > max_accel * dt THEN last + max_accel * dt
         ELSE IF vel - last < -(max_decel * dt) THEN last - max_decel * dt
         ELSE vel
    ELSE IF dt = 0
    THEN last
    ELSE IF vel - last < max_accel * dt THEN last + max_accel * dt
         ELSE IF vel - last > -(max_decel * dt) THEN last - max_decel * dt
         ELSE vel

\* applyKinematicConstraints: [lin, ang]; the dt of its body is its parameter
\* dt, max_accel and max_decel are the members max_accel_ and max_decel_
applyKinematicConstraints(c, last, linear_vel, angular_vel, dist_error, lookahead_dist, dt) ==
    [lin |-> LimitAccel(ScaleLinear(linear_vel, dist_error, lookahead_dist),
                        last.lin, dt, c.max_accel, c.max_decel),
     ang |-> LimitAccel(angular_vel, last.ang, dt, c.max_accel, c.max_decel)]

\* variant: the linear velocity is only kept non-negative
ClampWithoutUpperBound(c, v) ==
    [lin |-> Max(v.lin, 0),
     ang |-> Clamp(v.ang, -c.max_angular_vel, c.max_angular_vel)]

\* "make sure in range of valid velocities"
ClampToValid(c, v) ==
    [lin |-> Clamp(v.lin, 0, c.desired_linear_vel),
     ang |-> Clamp(v.ang, -c.max_angular_vel, c.max_angular_vel)]

-----------------------------------------------------------------------------
(* Controller: state after construction *)

\* op: the call; outcome: "ok" or the exception thrown; cmd: the command
\* returned; limited: applyKinematicConstraints ran, with time step dt;
\* path_len: the number of poses handed to setPlan
NoOp == [op |-> "none", outcome |-> "ok", cmd |-> NoCmd,
         limited |-> FALSE, dt |-> 0, path_len |-> -1]

CtrlInit ==
    /\ params \in Configs
    /\ global_pub_ = "null"
    /\ cfg = NoConfig
    /\ global_plan_ = DefaultPath
    /\ last_cmd_ = DefaultCmd
    /\ crashed = FALSE
    /\ last_op = NoOp

\* the lifecycle state the host sees, read off the publisher
LifecycleState ==
    CASE global_pub_ = "null" -> "Unconfigured"
      [] global_pub_ = "inactive" -> "Inactive"
      [] global_pub_ = "active" -> "Active"

Done(op, outcome) == [NoOp EXCEPT !.op = op, !.outcome = outcome]

\* node->get_parameter for each parameter: the value is taken as it is
ReadParameters(p) == p

\* configure: reads every parameter as given and creates the publisher;
\* it throws only when the parent node cannot be locked
Configure ==
    /\ ~crashed
    /\ global_pub_ = "null"
    /\ \E locked \in BOOLEAN :
          IF locked
          THEN /\ cfg' = ReadParameters(params)
               /\ global_pub_' = "inactive"
               /\ last_op' = Done("configure", "ok")
          ELSE /\ last_op' = Done("configure", "runtime_error")
               /\ UNCHANGED <<cfg, global_pub_>>
    /\ UNCHANGED <<params, global_plan_, last_cmd_, crashed>>
    /\ UNCHANGED <<collectorVars, clientVars>>

Activate ==
    /\ ~crashed
    /\ global_pub_ = "inactive"
    /\ global_pub_' = "active"
    /\ last_op' = Done("activate", "ok")
    /\ UNCHANGED <<params, cfg, global_plan_, last_cmd_, crashed>>
    /\ UNCHANGED <<collectorVars, clientVars>>

Deactivate ==
    /\ ~crashed
    /\ global_pub_ = "active"
    /\ global_pub_' = "inactive"
    /\ last_op' = Done("deactivate", "ok")
    /\ UNCHANGED <<params, cfg, global_plan_, last_cmd_, crashed>>
    /\ UNCHANGED <<collectorVars, clientVars>>

Cleanup ==
    /\ ~crashed
    /\ global_pub_ = "inactive"
    /\ global_pub_' = "null"
    /\ last_op' = Done("cleanup", "ok")
    /\ UNCHANGED <<params, cfg, global_plan_, last_cmd_, crashed>>
    /\ UNCHANGED <<collectorVars, clientVars>>

\* the path setPlan leaves in global_plan_
AssignPlan(held, path) == path

\* setPlan: publishes through global_pub_ (a null publisher ends the process)
\* and replaces the held path
SetPlan ==
    /\ ~crashed
    /\ \E poses \in Plans :
          IF global_pub_ = "null"
          THEN /\ crashed' = TRUE
               /\ last_op' = Done("setPlan", "crash")
               /\ UNCHANGED global_plan_
          ELSE /\ global_plan_' =
                     AssignPlan(global_plan_,
                                [frame |-> PlanFrame, poses |-> poses])
               /\ last_op' = [Done("setPlan", "ok") EXCEPT
                                 !.path_len = Len(poses)]
               /\ UNCHANGED crashed
    /\ UNCHANGED <<params, global_pub_, cfg, last_cmd_>>
    /\ UNCHANGED <<collectorVars, clientVars>>

\* variant: the command is stored before the collision check
StoreBeforeCheck(collision, last, cmd_vel) == cmd_vel

\* last_cmd_ after lines 207-218: the throw on collision precedes the store
StoreLastCmd(collision, last, cmd_vel) == IF collision THEN last ELSE cmd_vel

\* what a call of computeVelocityCommands leaves behind, given the inputs of
\* the tick: [outcome, poses, last_cmd, cmd, limited, dt]
Tick(pose, now, r, tf_robot_ok, tf_fail, lookahead_dist, collision) ==
    LET tgp == transformGlobalPlan(global_plan_, pose, r, tf_robot_ok, tf_fail)
        stop(outcome) ==
            [outcome |-> outcome, poses |-> tgp.poses, last_cmd |-> last_cmd_,
             cmd |-> NoCmd, limited |-> FALSE, dt |-> 0]
    IN IF tgp.published /\ global_pub_ = "null" THEN stop("crash")
       ELSE IF tgp.outcome # "ok" THEN stop(tgp.outcome)
       ELSE IF lookahead_dist < 0 THEN stop("crash")
       ELSE
       LET window == tgp.window
           carrot_pose == window[GoalPoseIndex(window, lookahead_dist)]
           carrot_dist2 == Dist2(pose.x, pose.y, carrot_pose.x, carrot_pose.y)
           carrot_dist == CarrotDist(pose, carrot_pose)
           dt == pose.stamp - last_cmd_.stamp
           limited ==
               applyKinematicConstraints(
                   cfg, last_cmd_, cfg.desired_linear_vel,
                   RawAngular(cfg, carrot_pose, carrot_dist2),
                   Abs(lookahead_dist - carrot_dist), lookahead_dist, dt)
           valid == ClampToValid(cfg, limited)
           cmd_vel == [stamp |-> now, lin |-> valid.lin, ang |-> valid.ang]
       IN [outcome |-> IF collision THEN "Collision" ELSE "ok",
           poses |-> tgp.poses,
           last_cmd |-> StoreLastCmd(collision, last_cmd_, cmd_vel),
           cmd |-> IF collision THEN NoCmd ELSE cmd_vel,
           limited |-> TRUE,
           dt |-> dt]

\* whether a lookup from frame src to frame dst can throw: transformPose
\* copies the pose without a lookup when the frames are equal
TfOutcomes(src, dst) == IF src = dst THEN {TRUE} ELSE BOOLEAN

\* the values getLookAheadDistance can return for the speeds the host reports
LookAheadDistances ==
    IF cfg.configured
    THEN UNION {getLookAheadDistance(cfg, speed) : speed \in Speeds}
    ELSE {0}

\* computeVelocityCommands.  The clock reading now is later than the last
\* stored one; the pose stamp is at most one step older than the last command.
\* isCollisionImminent flows off its end without a return statement, so its
\* result is any boolean.  Inputs that a tick does not read before it throws
\* are not varied: a tick that throws in transformGlobalPlan reads neither the
\* stamp, the speed, the clock nor the collision check, and what a tick that
\* throws on a collision leaves behind depends neither on the clock nor on
\* which per-pose lookups failed.
ComputeVelocityCommands ==
    /\ ~crashed
    /\ last_cmd_.stamp < MaxTime
    /\ \E frame \in {PlanFrame, BaseFrame}, r \in RobotPoses :
        \E tf_robot_ok \in TfOutcomes(frame, global_plan_.frame) :
        \E range \in {WindowRange(global_plan_, HostPose(frame, r, 0), r,
                                  tf_robot_ok)} :
        \E has_window \in {range.outcome = "ok" /\ range.begin < range.end} :
        \E collision \in IF has_window THEN BOOLEAN ELSE {FALSE} :
        \E emits \in {has_window /\ ~collision} :
        \E tf_fail \in IF emits THEN SUBSET (range.begin..(range.end - 1))
                       ELSE {{}},
           now \in IF emits THEN (last_cmd_.stamp + 1)..MaxTime
                   ELSE {last_cmd_.stamp + 1},
           lookahead_dist \in IF has_window THEN LookAheadDistances ELSE {0} :
        \E stamp \in IF emits THEN Max(0, last_cmd_.stamp - 1)..now
                     ELSE IF has_window
                          THEN Max(0, last_cmd_.stamp - 1)..MaxTime
                          ELSE {now} :
        \E t \in {Tick(HostPose(frame, r, stamp), now, r, tf_robot_ok,
                      tf_fail, lookahead_dist, collision)} :
           /\ global_plan_' = [global_plan_ EXCEPT !.poses = t.poses]
           /\ last_cmd_' = t.last_cmd
           /\ crashed' = (t.outcome = "crash")
           /\ last_op' = [op |-> "compute", outcome |-> t.outcome,
                          cmd |-> t.cmd, limited |-> t.limited,
                          dt |-> t.dt]
    /\ UNCHANGED <<params, global_pub_, cfg>>
    /\ UNCHANGED <<collectorVars, clientVars>>

-----------------------------------------------------------------------------
(* GPSWaypointCollector: timerCallback and sensorDataCallback, one step per
   statement, each callback on its own thread *)

NoLog == [latitude |-> -1, longitude |-> -1, orientation |-> -1]

\* default-constructed messages are sample 0
CollectorInit ==
    /\ is_first_msg_recieved_ = FALSE
    /\ reusable_navsat_msg_ = [latitude |-> 0, longitude |-> 0]
    /\ reusable_imu_msg_ = 0
    /\ global_mutex_ = "free"
    /\ timer_pc = "idle"
    /\ sensor_pc = "idle"
    /\ timer_local = NoLog
    /\ incoming = 0
    /\ logged = NoLog

\* variant: the guard does not wait for the mutex
LockWithoutWaiting(mutex) == TRUE

\* std::lock_guard<std::mutex> guard(global_mutex_) returns once the mutex is free
LockGuardReturns(mutex) == mutex = "free"

\* variant: the timer does not test the flag
EntersWithoutSample(flag) == TRUE

\* if (is_first_msg_recieved_), line 50
EntersOnFirstMessage(flag) == flag

\* timerCallback, line 50: the flag is read before the mutex is taken
TimerCheckFlag ==
    /\ timer_pc = "idle"
    /\ timer_pc' = IF EntersOnFirstMessage(is_first_msg_recieved_)
                   THEN "lock" ELSE "idle"
    /\ UNCHANGED <<is_first_msg_recieved_, reusable_navsat_msg_,
                   reusable_imu_msg_, global_mutex_, sensor_pc, timer_local,
                   incoming, logged>>
    /\ UNCHANGED <<ctrlVars, clientVars>>

TimerLock ==
    /\ timer_pc = "lock"
    /\ LockGuardReturns(global_mutex_)
    /\ global_mutex_' = "timer"
    /\ timer_pc' = "read_imu"
    /\ UNCHANGED <<is_first_msg_recieved_, reusable_navsat_msg_,
                   reusable_imu_msg_, sensor_pc, timer_local, incoming, logged>>
    /\ UNCHANGED <<ctrlVars, clientVars>>

\* lines 52-59: the quaternion is read from reusable_imu_msg_
TimerReadImu ==
    /\ timer_pc = "read_imu"
    /\ timer_local' = [NoLog EXCEPT !.orientation = reusable_imu_msg_]
    /\ timer_pc' = "read_latitude"
    /\ UNCHANGED <<is_first_msg_recieved_, reusable_navsat_msg_,
                   reusable_imu_msg_, global_mutex_, sensor_pc, incoming, logged>>
    /\ UNCHANGED <<ctrlVars, clientVars>>

\* line 63: reusable_navsat_msg_.latitude is read
TimerReadLatitude ==
    /\ timer_pc = "read_latitude"
    /\ timer_local' =
           [timer_local EXCEPT !.latitude = reusable_navsat_msg_.latitude]
    /\ timer_pc' = "log"
    /\ UNCHANGED <<is_first_msg_recieved_, reusable_navsat_msg_,
                   reusable_imu_msg_, global_mutex_, sensor_pc, incoming, logged>>
    /\ UNCHANGED <<ctrlVars, clientVars>>

\* line 64: the remaining fields are read, the line is logged and the guard
\* releases the mutex at the end of the block
TimerLog ==
    /\ timer_pc = "log"
    /\ logged' =
           [timer_local EXCEPT !.longitude = reusable_navsat_msg_.longitude]
    /\ global_mutex_' = IF global_mutex_ = "timer" THEN "free" ELSE global_mutex_
    /\ timer_pc' = "idle"
    /\ timer_local' = NoLog
    /\ UNCHANGED <<is_first_msg_recieved_, reusable_navsat_msg_,
                   reusable_imu_msg_, sensor_pc, incoming>>
    /\ UNCHANGED <<ctrlVars, clientVars>>

\* sensorDataCallback is invoked with the next synchronized pair, line 72
SensorLock ==
    /\ sensor_pc = "idle"
    /\ incoming < MaxSamples
    /\ LockGuardReturns(global_mutex_)
    /\ global_mutex_' = "sensor"
    /\ incoming' = incoming + 1
    /\ sensor_pc' = "write_latitude"
    /\ UNCHANGED <<is_first_msg_recieved_, reusable_navsat_msg_,
                   reusable_imu_msg_, timer_pc, timer_local, logged>>
    /\ UNCHANGED <<ctrlVars, clientVars>>

\* line 73, reusable_navsat_msg_ = *gps, field by field
SensorWriteLatitude ==
    /\ sensor_pc = "write_latitude"
    /\ reusable_navsat_msg_' = [reusable_navsat_msg_ EXCEPT !.latitude = incoming]
    /\ sensor_pc' = "write_longitude"
    /\ UNCHANGED <<is_first_msg_recieved_, reusable_imu_msg_, global_mutex_,
                   timer_pc, timer_local, incoming, logged>>
    /\ UNCHANGED <<ctrlVars, clientVars>>

SensorWriteLongitude ==
    /\ sensor_pc = "write_longitude"
    /\ reusable_navsat_msg_' = [reusable_navsat_msg_ EXCEPT !.longitude = incoming]
    /\ sensor_pc' = "write_imu"
    /\ UNCHANGED <<is_first_msg_recieved_, reusable_imu_msg_, global_mutex_,
                   timer_pc, timer_local, incoming, logged>>
    /\ UNCHANGED <<ctrlVars, clientVars>>

\* line 74
SensorWriteImu ==
    /\ sensor_pc = "write_imu"
    /\ reusable_imu_msg_' = incoming
    /\ sensor_pc' = "set_flag"
    /\ UNCHANGED <<is_first_msg_recieved_, reusable_navsat_msg_, global_mutex_,
                   timer_pc, timer_local, incoming, logged>>
    /\ UNCHANGED <<ctrlVars, clientVars>>

\* line 75
SensorSetFlag ==
    /\ sensor_pc = "set_flag"
    /\ is_first_msg_recieved_' = TRUE
    /\ sensor_pc' = "unlock"
    /\ UNCHANGED <<reusable_navsat_msg_, reusable_imu_msg_, global_mutex_,
                   timer_pc, timer_local, incoming, logged>>
    /\ UNCHANGED <<ctrlVars, clientVars>>

\* line 76: the guard releases the mutex
SensorUnlock ==
    /\ sensor_pc = "unlock"
    /\ global_mutex_' = IF global_mutex_ = "sensor" THEN "free" ELSE global_mutex_
    /\ sensor_pc' = "idle"
    /\ UNCHANGED <<is_first_msg_recieved_, reusable_navsat_msg_,
                   reusable_imu_msg_, timer_pc, timer_local, incoming, logged>>
    /\ UNCHANGED <<ctrlVars, clientVars>>

-----------------------------------------------------------------------------
(* GPSWayPointFollowerClient *)

\* what a parameter file can hold under gps_waypoint<i>: nothing, or an array
\* of doubles (tagged with the index so that entries can be told apart)
YamlEntries(i) ==
    {[set |-> FALSE, values |-> << >>],
     [set |-> TRUE, values |-> <<10 + i, 20 + i>>],
     [set |-> TRUE, values |-> <<10 + i, 20 + i, 30 + i>>],
     [set |-> TRUE, values |-> <<10 + i, 20 + i, 30 + i, 40 + i>>]}

\* the entries gps_waypoint0 .. gps_waypoint<n-1>, kept at positions 1..n
YamlEntryLists(n) ==
    {es \in [1..n -> UNION {YamlEntries(i) : i \in 0..(n - 1)}] :
        \A k \in 1..n : es[k] \in YamlEntries(k - 1)}

YamlFiles ==
    UNION {{[number_of_gps_waypoints |-> n, entries |-> es] :
               es \in YamlEntryLists(n)} : n \in 0..MaxWaypoints}

RECURSIVE LoadFrom(_, _, _)
\* the loop of loadGPSWaypointsFromYAML: an entry that is not set or has fewer
\* than three values throws inside the try block and is skipped by the catch
LoadFrom(y, i, gps_waypoint_msg_vector) ==
    IF i >= y.number_of_gps_waypoints THEN gps_waypoint_msg_vector
    ELSE LET e == y.entries[i + 1]
         IN IF ~e.set \/ Len(e.values) < 3
            THEN LoadFrom(y, i + 1, gps_waypoint_msg_vector)
            ELSE LoadFrom(y, i + 1,
                          Append(gps_waypoint_msg_vector,
                                 [latitude |-> e.values[1],
                                  longitude |-> e.values[2],
                                  altitude |-> e.values[3]]))

loadGPSWaypointsFromYAML(y) == LoadFrom(y, 0, << >>)

ResultCodes == {"SUCCEEDED", "ABORTED", "CANCELED", "UNKNOWN"}

\* the state the constructor leaves for parameter file y
ClientInitWith(y) ==
    /\ yaml = y
    /\ gps_waypoints_from_yaml_ = loadGPSWaypointsFromYAML(y)
    /\ goal_done_ = FALSE
    /\ timer_ = "armed"
    /\ main_pc = "spin"
    /\ goal_status = "none"
    /\ inbox = << >>
    /\ delivered = {}
    /\ sent = << >>
    /\ feedback_count = 0

ClientInit == \E y \in YamlFiles : ClientInitWith(y)

\* startWaypointFollowing, the timer callback
StartWaypointFollowing ==
    /\ main_pc = "spin"
    /\ timer_ = "armed"
    /\ timer_' = "cancelled"
    /\ \E is_action_server_ready \in BOOLEAN :
          IF ~is_action_server_ready
          THEN /\ goal_done_' = TRUE
               /\ delivered' = delivered \cup {"unavailable"}
               /\ UNCHANGED <<sent, goal_status>>
          ELSE /\ goal_done_' = FALSE
               /\ sent' = Append(sent, gps_waypoints_from_yaml_)
               /\ goal_status' = "pending"
               /\ UNCHANGED delivered
    /\ UNCHANGED <<yaml, gps_waypoints_from_yaml_, main_pc, inbox,
                   feedback_count>>
    /\ UNCHANGED <<ctrlVars, collectorVars>>

\* the action server answers the goal request
ServerRespond ==
    /\ goal_status = "pending"
    /\ \E accepted \in BOOLEAN :
          /\ goal_status' = IF accepted THEN "accepted" ELSE "rejected"
          /\ inbox' = Append(inbox, [kind |-> "response",
                                     code |-> IF accepted THEN "accepted"
                                              ELSE "rejected"])
    /\ UNCHANGED <<yaml, gps_waypoints_from_yaml_, goal_done_, timer_, main_pc,
                   delivered, sent, feedback_count>>
    /\ UNCHANGED <<ctrlVars, collectorVars>>

\* the action server reports progress on an accepted goal
ServerFeedback ==
    /\ goal_status = "accepted"
    /\ feedback_count < MaxFeedback
    /\ feedback_count' = feedback_count + 1
    /\ inbox' = Append(inbox, [kind |-> "feedback", code |-> "feedback"])
    /\ UNCHANGED <<yaml, gps_waypoints_from_yaml_, goal_done_, timer_, main_pc,
                   goal_status, delivered, sent>>
    /\ UNCHANGED <<ctrlVars, collectorVars>>

\* the action server finishes an accepted goal
ServerResult ==
    /\ goal_status = "accepted"
    /\ \E code \in ResultCodes :
          inbox' = Append(inbox, [kind |-> "result", code |-> code])
    /\ goal_status' = "finished"
    /\ UNCHANGED <<yaml, gps_waypoints_from_yaml_, goal_done_, timer_, main_pc,
                   delivered, sent, feedback_count>>
    /\ UNCHANGED <<ctrlVars, collectorVars>>

\* goalResponseCallback: it only logs
GoalResponseCallback ==
    /\ main_pc = "spin"
    /\ inbox # << >> /\ Head(inbox).kind = "response"
    /\ inbox' = Tail(inbox)
    /\ delivered' = delivered \cup {Head(inbox).code}
    /\ UNCHANGED <<yaml, gps_waypoints_from_yaml_, goal_done_, timer_, main_pc,
                   goal_status, sent, feedback_count>>
    /\ UNCHANGED <<ctrlVars, collectorVars>>

\* feedbackCallback: it only logs
FeedbackCallback ==
    /\ main_pc = "spin"
    /\ inbox # << >> /\ Head(inbox).kind = "feedback"
    /\ inbox' = Tail(inbox)
    /\ delivered' = delivered \cup {"feedback"}
    /\ UNCHANGED <<yaml, gps_waypoints_from_yaml_, goal_done_, timer_, main_pc,
                   goal_status, sent, feedback_count>>
    /\ UNCHANGED <<ctrlVars, collectorVars>>

\* variant: goal_done_ is set after the switch, which only SUCCEEDED reaches
SetsGoalDoneOnSuccess(code) == code = "SUCCEEDED"

\* resultCallback, line 171: goal_done_ = true comes before the switch
SetsGoalDone(code) == TRUE

ResultCallback ==
    /\ main_pc = "spin"
    /\ inbox # << >> /\ Head(inbox).kind = "result"
    /\ inbox' = Tail(inbox)
    /\ goal_done_' = IF SetsGoalDone(Head(inbox).code) THEN TRUE ELSE goal_done_
    /\ delivered' = delivered \cup {Head(inbox).code}
    /\ UNCHANGED <<yaml, gps_waypoints_from_yaml_, timer_, main_pc,
                   goal_status, sent, feedback_count>>
    /\ UNCHANGED <<ctrlVars, collectorVars>>

\* main: the while loop finds is_goal_done() true, rclcpp::shutdown, return
MainLoopExit ==
    /\ main_pc = "spin"
    /\ goal_done_
    /\ main_pc' = "shutdown"
    /\ UNCHANGED <<yaml, gps_waypoints_from_yaml_, goal_done_, timer_,
                   goal_status, inbox, delivered, sent, feedback_count>>
    /\ UNCHANGED <<ctrlVars, collectorVars>>

-----------------------------------------------------------------------------
(* Specifications *)

NoYaml == [number_of_gps_waypoints |-> 0, entries |-> << >>]

\* the controller, driven by its host
Init == CtrlInit /\ CollectorInit /\ ClientInitWith(NoYaml)

Next ==
    \/ Configure
    \/ Activate
    \/ Deactivate
    \/ Cleanup
    \/ SetPlan
    \/ ComputeVelocityCommands

Spec == Init /\ [][Next]_vars

\* the collector node
InitCollector ==
    /\ CtrlInit /\ params = DefaultConfig
    /\ CollectorInit
    /\ ClientInitWith(NoYaml)

NextCollector ==
    \/ TimerCheckFlag
    \/ TimerLock
    \/ TimerReadImu
    \/ TimerReadLatitude
    \/ TimerLog
    \/ SensorLock
    \/ SensorWriteLatitude
    \/ SensorWriteLongitude
    \/ SensorWriteImu
    \/ SensorSetFlag
    \/ SensorUnlock

SpecCollector == InitCollector /\ [][NextCollector]_vars

\* the waypoint submission client; its main thread keeps running the loop
InitClient ==
    /\ CtrlInit /\ params = DefaultConfig
    /\ CollectorInit
    /\ ClientInit

NextClient ==
    \/ StartWaypointFollowing
    \/ ServerRespond
    \/ ServerFeedback
    \/ ServerResult
    \/ GoalResponseCallback
    \/ FeedbackCallback
    \/ ResultCallback
    \/ MainLoopExit

SpecClient ==
    /\ InitClient
    /\ [][NextClient]_vars
    /\ WF_vars(MainLoopExit)

-----------------------------------------------------------------------------
(* Properties of the controller *)

IsCompute(op) == op.op = "compute"

TickFailed(op) == IsCompute(op) /\ op.outcome \notin {"ok", "crash"}

\* C1: every command computeVelocityCommands emits for a time step dt > 0, and
\* stores as the last emitted command, has its linear velocity in
\* [0, desired_linear_vel] and its angular velocity in
\* [-max_angular_vel, max_angular_vel].
C1_CommandWithinLimits ==
    (IsCompute(last_op) /\ last_op.outcome = "ok" /\ last_op.dt > 0) =>
        /\ last_cmd_ = last_op.cmd
        /\ 0 <= last_op.cmd.lin
        /\ last_op.cmd.lin <= cfg.desired_linear_vel
        /\ -cfg.max_angular_vel <= last_op.cmd.ang
        /\ last_op.cmd.ang <= cfg.max_angular_vel

\* a tick with dt > 0 emitted a command at the upper linear bound and a
\* non-zero angular velocity
C1_Witness ==
    /\ IsCompute(last_op) /\ last_op.outcome = "ok" /\ last_op.dt > 0
    /\ last_op.cmd.lin = cfg.desired_linear_vel
    /\ last_op.cmd.ang # 0

\* C2: a tick that fails with an error leaves the held path and the last
\* emitted command exactly as they were before the tick.
C2_FailedTickCommitsNothing ==
    [][TickFailed(last_op') =>
          (global_plan_' = global_plan_ /\ last_cmd_' = last_cmd_)]_vars

\* C3: a tick in which the collision interlock reports a collision fails with
\* the collision error, returns no command and does not update the last
\* emitted command.
C3_CollisionEmitsNothing ==
    [][(IsCompute(last_op') /\ last_op'.outcome = "Collision") =>
          (last_op'.cmd = NoCmd /\ last_cmd_' = last_cmd_)]_vars

\* a tick failed with the collision error after a command had been emitted
C3_Witness ==
    /\ IsCompute(last_op) /\ last_op.outcome = "Collision"
    /\ last_op.cmd = NoCmd
    /\ last_cmd_ # DefaultCmd

\* C4: setPlan called with a path of zero poses (a call that is to fail with
\* EmptyPathError) leaves the poses of the held path unchanged.
C4_EmptySetPlanKeepsPath ==
    [][(last_op'.op = "setPlan" /\ last_op'.path_len = 0) =>
          global_plan_'.poses = global_plan_.poses]_vars

\* C5: computeVelocityCommands and setPlan called outside Active fail and
\* change neither the lifecycle state, the held path nor the last command.
C5_OnlyValidInActive ==
    [][(last_op'.op \in {"setPlan", "compute"} /\ LifecycleState # "Active") =>
          (last_op'.outcome \notin {"ok"}
           /\ global_pub_' = global_pub_
           /\ global_plan_' = global_plan_
           /\ last_cmd_' = last_cmd_)]_vars

\* C6: a tick whose time step dt is <= 0 emits no command and leaves the last
\* emitted command unchanged.
C6_DegenerateTimeStepRejected ==
    [][(IsCompute(last_op') /\ last_op'.limited /\ last_op'.dt <= 0) =>
          (last_op'.outcome # "ok"
           /\ last_op'.cmd = NoCmd
           /\ last_cmd_' = last_cmd_)]_vars

\* the held-path pose at index 1 is at minimum distance from a robot at r
StartsAtNearest(poses, r) ==
    \A i \in 1..Len(poses) :
        Dist2(r.x, r.y, poses[1].x, poses[1].y)
            <= Dist2(r.x, r.y, poses[i].x, poses[i].y)

\* a second transformGlobalPlan for the same robot pose and the same lookups,
\* on the held path that the first call (result first) left behind
SecondCall(first, pose, r, tf_fail) ==
    LET shift == Len(global_plan_.poses) - Len(first.poses)
    IN transformGlobalPlan([global_plan_ EXCEPT !.poses = first.poses], pose, r,
                           TRUE, {i - shift : i \in tf_fail})

\* C7: for a stationary robot, after a successful transformGlobalPlan the held
\* path starts at the pose nearest the robot, and a further call leaves the
\* held path unchanged and returns the same window.
C7_PruneIdempotent ==
    \A frame \in {PlanFrame, BaseFrame}, r \in RobotPoses,
       tf_fail \in SUBSET (1..Len(global_plan_.poses)) :
        LET pose == HostPose(frame, r, 0)
            first == transformGlobalPlan(global_plan_, pose, r, TRUE, tf_fail)
            second == SecondCall(first, pose, r, tf_fail)
        IN first.outcome = "ok" =>
              /\ StartsAtNearest(first.poses, r)
              /\ second.outcome = "ok"
              /\ second.poses = first.poses
              /\ second.window = first.window

\* a successful tick has pruned the held path, more than one pose is left, and
\* for some robot pose a call would prune again and a further one would not
C7_Witness ==
    /\ IsCompute(last_op) /\ last_op.outcome = "ok"
    /\ Len(global_plan_.poses) = 2
    /\ \E r \in RobotPoses :
          LET pose == HostPose(BaseFrame, r, 0)
              first == transformGlobalPlan(global_plan_, pose, r, TRUE, {})
          IN /\ first.outcome = "ok"
             /\ Len(first.poses) < Len(global_plan_.poses)
             /\ SecondCall(first, pose, r, {}).poses = first.poses

\* C8: a configuration with min_lookahead_dist > max_lookahead_dist is
\* rejected by configure: the controller stays Unconfigured and holds no
\* configuration with inverted bounds.
C8_InvertedBoundsRejected ==
    (params.min_lookahead_dist > params.max_lookahead_dist) =>
        (LifecycleState = "Unconfigured" /\ cfg = NoConfig)

-----------------------------------------------------------------------------
(* Properties of the collector *)

\* C9: the position and the orientation that one timer firing logs come from
\* the same synchronized sample pair, and from a pair that is fully written.
C9_LoggedSampleConsistent ==
    logged # NoLog =>
        /\ logged.latitude = logged.longitude
        /\ logged.longitude = logged.orientation

\* a waypoint was logged, and now the timer waits for the mutex while the
\* sensor callback has written only part of the next pair
C9_Witness ==
    /\ logged # NoLog
    /\ timer_pc = "lock"
    /\ global_mutex_ = "sensor"
    /\ reusable_navsat_msg_.latitude # reusable_imu_msg_

-----------------------------------------------------------------------------
(* Properties of the waypoint submission client *)

ResultDelivered == delivered \cap ResultCodes # {}

\* C10: once a result is delivered to resultCallback goal_done_ is true and
\* the main loop exits; the process does not terminate on feedback or on the
\* goal's acceptance alone.
C10_TerminatesOnResult ==
    /\ [](ResultDelivered => goal_done_)
    /\ (ResultDelivered ~> main_pc = "shutdown")
    /\ []((main_pc = "shutdown" /\ goal_status # "none") => ResultDelivered)

\* the process ended after feedback and an aborted result were delivered
C10_Witness ==
    /\ main_pc = "shutdown"
    /\ {"accepted", "feedback", "ABORTED"} \subseteq delivered

\* C11: a goal that the client has sent is the only one, and its waypoint list
\* has number_of_gps_waypoints entries, entry i being the (latitude,
\* longitude, altitude) triple of gps_waypoint<i>, in index order, also when
\* an entry is missing or has fewer than three values.
C11_GoalCarriesAllWaypoints ==
    sent # << >> =>
        /\ Len(sent) = 1
        /\ Len(sent[1]) = yaml.number_of_gps_waypoints
        /\ \A i \in 1..Len(sent[1]) :
              /\ yaml.entries[i].set
              /\ Len(yaml.entries[i].values) >= 3
              /\ sent[1][i] = [latitude |-> yaml.entries[i].values[1],
                               longitude |-> yaml.entries[i].values[2],
                               altitude |-> yaml.entries[i].values[3]]

-----------------------------------------------------------------------------
(* Properties of the path window manager *)

\* poses q are what is left of poses p after removing some from its front
IsSuffix(q, p) ==
    \E k \in 0..Len(p) : q = SubSeq(p, k + 1, Len(p))

\* C12: between two setPlan calls every call, a failing tick included, leaves
\* as the held path a contiguous suffix of the path held before, in the same
\* frame, and a non-empty held path is never emptied.
C12_HeldPathIsSuffix ==
    [][last_op'.op # "setPlan" =>
          /\ global_plan_'.frame = global_plan_.frame
          /\ IsSuffix(global_plan_'.poses, global_plan_.poses)
          /\ (global_plan_.poses # << >> => global_plan_'.poses # << >>)]_vars

\* a failing tick has pruned the held path down to its last pose
C12_Witness ==
    /\ IsCompute(last_op) /\ last_op.outcome = "EmptyWindow"
    /\ Len(global_plan_.poses) = 1

\* the positions the robot pose has in the plan frame
RobotPositions == {Pt(r.x, r.y) : r \in RobotPoses}

\* pose i of poses is at the same distance from rp as pose j, or closer
NotFarther(poses, rp, i, j) ==
    Dist2(rp.x, rp.y, poses[i].x, poses[i].y)
        <= Dist2(rp.x, rp.y, poses[j].x, poses[j].y)

\* C13: for the held path and every robot position, min_by returns the index
\* of a pose at minimum distance from the robot, the smallest such index when
\* several poses are at that distance, and the end position (Len + 1) when the
\* path is empty.
C13_ClosestIsFirstMinimum ==
    \A rp \in RobotPositions :
        LET poses == global_plan_.poses
            closest == min_by(poses, rp)
        IN IF Len(poses) = 0
           THEN closest = Len(poses) + 1
           ELSE /\ closest \in 1..Len(poses)
                /\ \A j \in 1..Len(poses) : NotFarther(poses, rp, closest, j)
                /\ \A j \in 1..(closest - 1) : ~NotFarther(poses, rp, j, closest)

\* a tick succeeded and the held path has two poses at the same minimum
\* distance from some robot position
C13_Witness ==
    /\ IsCompute(last_op) /\ last_op.outcome = "ok"
    /\ \E rp \in RobotPositions :
          \E i, j \in 1..Len(global_plan_.poses) :
              /\ i < j
              /\ NotFarther(global_plan_.poses, rp, i, j)
              /\ NotFarther(global_plan_.poses, rp, j, i)
              /\ min_by(global_plan_.poses, rp) = i

\* the distance from rp to ps is strictly greater than the window radius,
\* half the larger cost-grid dimension times the resolution
BeyondRadius(rp, ps) ==
    4 * Dist2(rp.x, rp.y, ps.x, ps.y)
        > (Max(Costmap.size_x, Costmap.size_y) * Costmap.resolution)
              * (Max(Costmap.size_x, Costmap.size_y) * Costmap.resolution)

\* the first index at or after closest whose pose is beyond the radius,
\* Len + 1 if there is none
FirstBeyond(poses, rp, closest) ==
    LET beyond == {i \in closest..Len(poses) : BeyondRadius(rp, poses[i])}
    IN IF beyond = {} THEN Len(poses) + 1
       ELSE CHOOSE i \in beyond : \A j \in beyond : i <= j

\* C14: when every lookup succeeds, the window transformGlobalPlan returns for
\* the held path holds the transforms of exactly the poses at the indices from
\* the closest pose up to, not including, the first pose at or after it that
\* is strictly farther from the robot than the window radius, and runs to the
\* end of the path when there is none.
C14_WindowRunsToFirstBeyondRadius ==
    \A frame \in {PlanFrame, BaseFrame}, r \in RobotPoses :
        LET poses == global_plan_.poses
            closest == min_by(poses, Pt(r.x, r.y))
            window_end == FirstBeyond(poses, Pt(r.x, r.y), closest)
            tgp == transformGlobalPlan(global_plan_, HostPose(frame, r, 0), r,
                                       TRUE, {})
        IN Len(poses) > 0 =>
              /\ Len(tgp.window) = window_end - closest
              /\ \A k \in 1..Len(tgp.window) :
                    tgp.window[k] =
                        TfTransform(BaseFrame, poses[closest + k - 1], r)

\* a tick succeeded, and for some robot pose the window of the held path ends
\* before a pose that is inside the radius again, while for another its last
\* pose is exactly at the radius
C14_Witness ==
    /\ IsCompute(last_op) /\ last_op.outcome = "ok"
    /\ \E r \in RobotPoses :
          LET poses == global_plan_.poses
              window_end == FirstBeyond(poses, Pt(r.x, r.y),
                                        min_by(poses, Pt(r.x, r.y)))
          IN \E j \in (window_end + 1)..Len(poses) :
                ~BeyondRadius(Pt(r.x, r.y), poses[j])
    /\ \E r \in RobotPoses :
          \E i \in 1..Len(global_plan_.poses) :
              /\ i = min_by(global_plan_.poses, Pt(r.x, r.y))
              /\ 4 * Dist2(r.x, r.y, global_plan_.poses[i].x,
                           global_plan_.poses[i].y)
                     = TwiceMaxTransformDist * TwiceMaxTransformDist

-----------------------------------------------------------------------------
(* Properties of the lookahead selector and the velocity synthesizer *)

\* the distance of window pose k from the robot-local origin is >= lookahead
Reaches(window, k, lookahead) ==
    window[k].x * window[k].x + window[k].y * window[k].y >= lookahead * lookahead

\* the windows transformGlobalPlan can return for the held path and a robot at
\* r: with every lookup succeeding and with every per-pose lookup failing
WindowsOf(r) ==
    {tgp.window :
        tgp \in {t \in {transformGlobalPlan(global_plan_,
                                            HostPose(BaseFrame, r, 0), r, TRUE,
                                            tf_fail) :
                           tf_fail \in {{}, 1..Len(global_plan_.poses)}} :
                    t.outcome = "ok"}}

RECURSIVE TransformsOfReachable(_, _, _, _, _)
\* the base-frame transforms of the poses at the indices i..(e - 1) of poses
\* whose lookup does not fail, in index order
TransformsOfReachable(poses, i, e, tf_fail, r) ==
    IF i >= e THEN << >>
    ELSE IF i \in tf_fail
         THEN TransformsOfReachable(poses, i + 1, e, tf_fail, r)
         ELSE <<TfTransform(BaseFrame, poses[i], r)>>
                  \o TransformsOfReachable(poses, i + 1, e, tf_fail, r)

\* C16: whichever per-pose lookups fail, the window transformGlobalPlan builds
\* for the held path holds exactly the base-frame transforms of the poses of
\* [closest, window-end) whose lookup succeeded (a failed pose contributes no
\* entry), and the call fails with the empty-window error when all fail.
C16_FailedTransformsLeaveNoEntry ==
    \A r \in RobotPoses, tf_fail \in SUBSET (1..Len(global_plan_.poses)) :
        LET poses == global_plan_.poses
            closest == min_by(poses, Pt(r.x, r.y))
            window_end == TransformationEnd(poses, Pt(r.x, r.y), closest)
            tgp == transformGlobalPlan(global_plan_, HostPose(BaseFrame, r, 0),
                                       r, TRUE, tf_fail)
        IN Len(poses) > 0 =>
              /\ tgp.window =
                     TransformsOfReachable(poses, closest, window_end, tf_fail, r)
              /\ (closest..(window_end - 1) \subseteq tf_fail
                      => tgp.outcome = "EmptyWindow")

\* C17: for every pose the host passes (in the base frame or in the plan
\* frame, where its coordinates are those of the robot) and every window and
\* lookahead distance, the carrot distance the tick computes is the distance
\* of the carrot from the robot-local origin, the one carrot selection
\* compared with the lookahead.
C17_CarrotDistanceFromOrigin ==
    \A frame \in {PlanFrame, BaseFrame}, r \in RobotPoses :
        \A window \in WindowsOf(r), lookahead \in LookAheadDistances :
            LET carrot_pose == window[GoalPoseIndex(window, lookahead)]
            IN lookahead >= 0 =>
                  CarrotDist(HostPose(frame, r, 0), carrot_pose)
                      = Hypot(carrot_pose.x, carrot_pose.y)

-----------------------------------------------------------------------------
(* Properties of the kinematic limiter *)

\* v is within the acceleration band around the previous velocity p
InBand(v, p, dt) ==
    /\ p - cfg.max_decel * dt <= v
    /\ v <= p + cfg.max_accel * dt

\* the acceleration limiter passes the edges and the middle of the band around
\* p unchanged and brings a value just outside the band back to its edge
PassesBand(p, dt) ==
    LET limit(vel) == LimitAccel(vel, p, dt, cfg.max_accel, cfg.max_decel)
        upper == p + cfg.max_accel * dt
        lower == p - cfg.max_decel * dt
    IN /\ limit(upper) = upper
       /\ limit(lower) = lower
       /\ limit(p) = p
       /\ limit(upper + 1) = upper
       /\ limit(lower - 1) = lower

CarrotDistances == {0, 200, 400, 565, 800, 2000}

\* the linear velocity after the end-of-path scaling, for a carrot at
\* carrot_dist and lookahead distance lookahead
ScaledAt(carrot_dist, lookahead) ==
    ScaleLinear(cfg.desired_linear_vel, Abs(lookahead - carrot_dist), lookahead)

\* C19: for every lookahead distance, the scaled linear velocity never exceeds
\* desired_linear_vel, whether the carrot is nearer or farther than the
\* lookahead, and it does not increase as the carrot distance decreases from
\* the lookahead toward zero.
C19_EndOfPathScalingSlows ==
    cfg.configured =>
        \A lookahead \in LookAheadDistances :
            lookahead > 0 =>
                /\ \A d \in CarrotDistances :
                       ScaledAt(d, lookahead) <= cfg.desired_linear_vel
                /\ \A d1, d2 \in CarrotDistances :
                       (d1 <= d2 /\ d2 <= lookahead) =>
                           ScaledAt(d1, lookahead) <= ScaledAt(d2, lookahead)

-----------------------------------------------------------------------------
(* Properties of the collision interlock *)

\* C20: isCollisionImminent reports no collision for every robot pose and
\* carrot pose, so no tick fails with the collision error.
C20_NoTickFailsWithCollision ==
    IsCompute(last_op) => last_op.outcome # "Collision"

-----------------------------------------------------------------------------
(* The waypoint submission client under fair scheduling *)

\* the timer fires, the action server answers and reports, the executor runs
\* every callback that is due, and the main thread keeps testing its loop
ClientFairness ==
    /\ WF_vars(StartWaypointFollowing)
    /\ WF_vars(ServerRespond)
    /\ WF_vars(ServerResult)
    /\ WF_vars(GoalResponseCallback)
    /\ WF_vars(FeedbackCallback)
    /\ WF_vars(ResultCallback)
    /\ WF_vars(MainLoopExit)

SpecClientFair == InitClient /\ [][NextClient]_vars /\ ClientFairness

\* C21: for every outcome of the request (server unavailable, goal rejected,
\* goal accepted and then succeeded, aborted or canceled) the client
\* eventually sets goal_done_ and leaves its spin loop, and it sends the goal
\* at most once.
C21_EveryOutcomeEndsTheLoop ==
    /\ <>(goal_done_ /\ main_pc = "shutdown")
    /\ [](Len(sent) <= 1)

-----------------------------------------------------------------------------
(* The collector's first sample *)

\* both shared messages hold a sample that sensorDataCallback wrote; sample 0
\* is the default-constructed one
SlotWritten ==
    /\ reusable_navsat_msg_.latitude >= 1
    /\ reusable_navsat_msg_.longitude >= 1
    /\ reusable_imu_msg_ >= 1

\* C22: for every interleaving of the two callbacks, while a timer firing
\* reads the shared messages a synchronized sample has been completely written
\* to them, and no firing logs a value of the default-constructed sample.
C22_NeverLogsDefaultSample ==
    /\ timer_pc \in {"read_imu", "read_latitude", "log"} => SlotWritten
    /\ logged # NoLog =>
          /\ logged.latitude >= 1
          /\ logged.longitude >= 1
          /\ logged.orientation >= 1

\* the first sample was logged while it was the only one delivered, and the
\* timer has since tested the flag again and waits for the mutex
C22_Witness ==
    /\ logged = [latitude |-> 1, longitude |-> 1, orientation |-> 1]
    /\ incoming = 1
    /\ timer_pc = "lock"

====
